---- MODULE Spec2Model ----
(***************************************************************************)
(* Snaperz extender simulation: the scalar (linked segment) engine of      *)
(* snaperz_extender_fallback.h, the windowed AVX2 engine of                *)
(* snaperz_extender_avx2.h and the tortoise/hare driver simulate_extender. *)
(***************************************************************************)
EXTENDS Integers, Sequences, FiniteSets, TLC

VARIABLES
  kLength,        \* constants.h: number of pistons of the extender
  kPeriod,        \* constants.h: tick period between pulses
  fallback,       \* a scalar Extender (BlockSegment array), free running
  curr,           \* cursor of the scalar simulate_pulse loop
  visit,          \* what the last loop iteration of simulate_pulse did
  avx2,           \* a vectorized Extender, free running
  phase,          \* position inside the vectorized simulate_pulse
  engine,         \* which header snaperz_extender.h selected for the driver
  extender,       \* driver: the fast instance
  slow_extender,  \* driver: the slow instance
  pulses,         \* driver: pulse counter
  pc,             \* driver: position in simulate_extender
  extra,          \* pulses simulated outside the driver loop
  twin            \* the driver of the build with the other engine

vars == <<kLength, kPeriod, fallback, curr, visit, avx2, phase,
          engine, extender, slow_extender, pulses, pc, extra, twin>>

params == <<kLength, kPeriod>>

scalarVars == <<fallback, curr, visit>>

vectorVars == <<avx2, phase>>

driverVars == <<engine, extender, slow_extender, pulses, pc, extra>>

(***************************************************************************)
(* Bounds of the model.                                                    *)
(***************************************************************************)
MaxLength == 5
MaxPeriod == 16
\* sizeof(__m256i), scaled down so that the window is shorter than the chain
RegisterBytes == 2
\* cap on the step counter of a vectorized instance
MaxSteps == 140
\* cap on the pulse counter of the driver
MaxPulses == 48
\* cap on the simulate_pulse calls on each instance of a pair
MaxCalls == 8

Min(a, b) == IF a <= b THEN a ELSE b

\* value of the variables a specification does not use
Unused == <<>>

(***************************************************************************)
(* constants.h                                                             *)
(***************************************************************************)
kHardPushLimit == 12

\* uint32_t subtraction a - b for a, b < 2^16; the result is kept as two
\* 16-bit halves because 2^32 - 1 does not fit the model's integers.
U32Sub(a, b) ==
  IF a >= b THEN [hi |-> 0, lo |-> a - b]
  ELSE [hi |-> 2^16 - 1, lo |-> 2^16 + (a - b)]

\* std::min(uint32_t small, uint32_t u) with u in halves
U32Min(small, u) == IF u.hi > 0 THEN small ELSE Min(small, u.lo)

kVirtualPushLimitOf(period) == U32Sub(period \div 4, 2)

kPushLimitOf(period) == U32Min(kHardPushLimit, kVirtualPushLimitOf(period))

kLastPushLimitOf(period) == Min(kPushLimitOf(period) + 1, kHardPushLimit)

kPushLimit == kPushLimitOf(kPeriod)

kLastPushLimit == kLastPushLimitOf(kPeriod)

\* smallest_fit<kLength + 1>: size in bytes of len_t
SizeofLen(n) ==
  IF n <= 2^8 - 1 THEN 1 ELSE IF n <= 2^16 - 1 THEN 2 ELSE 4

(***************************************************************************)
(* Scalar engine: snaperz_extender_fallback.h                              *)
(***************************************************************************)
nullptr == -1

Cells == 0..kLength

\* create() without the check for the last segment
create_fallback_unterminated(length) ==
  [len  |-> [i \in 0..length |-> 1],
   next |-> [i \in 0..length |-> i + 1]]

\* create(): kLength + 1 cells of length 1, chained in index order
create_fallback(length) ==
  [len  |-> [i \in 0..length |-> 1],
   next |-> [i \in 0..length |-> IF i # length THEN i + 1 ELSE nullptr]]

\* the push amount of the header's pseudo code: min(push_limit, len)
BlocksToPushWhole(push_limit, len) == Min(push_limit, len)

\* std::min(push_limit, curr->len - 1)
BlocksToPush(push_limit, len) == Min(push_limit, len - 1)

\* curr->next ? kPushLimit : kLastPushLimit
PushLimitFor(ext, c) ==
  IF ext.next[c] # nullptr THEN kPushLimit ELSE kLastPushLimit

\* The cell after the array (index kLength + 1) does not exist: touching it
\* is undefined behaviour.
InArray(i) == i \in Cells

\* push case of one loop iteration, at cell c with c + 1 inside the array
PushCase(ext, c) ==
  LET push_limit == PushLimitFor(ext, c)
      blocks_to_push == BlocksToPush(push_limit, ext.len[c])
      seq_next == c + 1
      linked == IF ext.len[seq_next] = 0
                THEN [ext.next EXCEPT ![seq_next] = ext.next[c], ![c] = seq_next]
                ELSE ext.next
      moved == [ext.len EXCEPT ![c] = ext.len[c] - blocks_to_push,
                               ![seq_next] = ext.len[seq_next] + blocks_to_push]
  IN [ext |-> [len |-> moved, next |-> linked], brk |-> FALSE,
      kind |-> "push", amount |-> blocks_to_push]

\* a merge that folds c into seq_next instead
MergeCaseForward(ext, c) ==
  LET seq_next == c + 1
      merged == [ext.len EXCEPT ![seq_next] = ext.len[c] + ext.len[seq_next],
                                ![c] = 0]
      unlinked == [ext.next EXCEPT ![c] = ext.next[seq_next]]
  IN [ext |-> [len |-> merged, next |-> unlinked],
      brk |-> (unlinked[c] = nullptr),
      kind |-> "merge", amount |-> ext.len[c]]

\* a merge that forgets "seq_next->len = 0"
MergeCaseKeepLen(ext, c) ==
  LET seq_next == c + 1
      merged == [ext.len EXCEPT ![c] = ext.len[c] + ext.len[seq_next]]
      unlinked == [ext.next EXCEPT ![c] = ext.next[seq_next]]
  IN [ext |-> [len |-> merged, next |-> unlinked],
      brk |-> (unlinked[c] = nullptr),
      kind |-> "merge", amount |-> ext.len[seq_next]]

\* the merge of the pull case: seq_next is folded into c and unlinked
MergeCase(ext, c) ==
  LET seq_next == c + 1
      merged == [ext.len EXCEPT ![c] = ext.len[c] + ext.len[seq_next],
                                ![seq_next] = 0]
      unlinked == [ext.next EXCEPT ![c] = ext.next[seq_next]]
  IN [ext |-> [len |-> merged, next |-> unlinked],
      brk |-> (unlinked[c] = nullptr),
      kind |-> "merge", amount |-> ext.len[seq_next]]

\* a pull case that merges only a successor of length 1
PullCaseSingle(ext, c) ==
  IF ext.next[c] = nullptr
  THEN [ext |-> ext, brk |-> TRUE, kind |-> "last", amount |-> 0]
  ELSE IF ext.len[c + 1] = 1
       THEN MergeCase(ext, c)
       ELSE [ext |-> ext, brk |-> FALSE, kind |-> "skip", amount |-> 0]

\* pull case of one loop iteration, at cell c
PullCase(ext, c) ==
  IF ext.next[c] = nullptr
  THEN [ext |-> ext, brk |-> TRUE, kind |-> "last", amount |-> 0]
  ELSE IF ext.len[c + 1] # 0
       THEN MergeCase(ext, c)
       ELSE [ext |-> ext, brk |-> FALSE, kind |-> "skip", amount |-> 0]

\* Does the loop iteration at cell c touch the cell after the array?
TouchesPastArray(ext, c) ==
  /\ ~InArray(c + 1)
  /\ \/ ext.len[c] > 1
     \/ ext.next[c] # nullptr

\* One iteration of the while (true) loop of simulate_pulse at cell c.
\* The result names the new state, whether the loop was left by break,
\* and the cursor after "curr = curr->next".
Iteration(ext, c) ==
  IF TouchesPastArray(ext, c)
  THEN [ext |-> ext, brk |-> TRUE, kind |-> "fault_oob", amount |-> 0,
        k |-> c, to |-> nullptr]
  ELSE LET r == IF ext.len[c] > 1 THEN PushCase(ext, c) ELSE PullCase(ext, c)
       IN [ext |-> r.ext, brk |-> r.brk, kind |-> r.kind,
           amount |-> r.amount, k |-> c,
           to |-> IF r.brk THEN nullptr ELSE r.ext.next[c]]

\* finished() that looks at the successor of the first cell
finished_fallback_second(ext) ==
  \/ ext.next[0] = nullptr
  \/ ext.next[ext.next[0]] = nullptr

\* finished(): the first cell is the last one of the chain
finished_fallback(ext) == ext.next[0] = nullptr


\* The while (true) loop of simulate_pulse from cell c on.  The loop is
\* deterministic, so it never returns once it is back at a cell with the
\* state it had there before.
RECURSIVE RunLoop(_, _, _)
RunLoop(ext, c, seen) ==
  IF <<ext, c>> \in seen
  THEN [ext |-> ext, status |-> "hang"]
  ELSE CHOOSE out \in
         {IF r.kind = "fault_oob" \/ (~r.brk /\ r.to = nullptr)
          THEN [ext |-> r.ext, status |-> "fault"]
          ELSE IF r.brk
               THEN [ext |-> r.ext, status |-> "returned"]
               ELSE RunLoop(r.ext, r.to, seen \cup {<<ext, c>>})
          : r \in {Iteration(ext, c)}} : TRUE

\* a simulate_pulse() that returns after the first segment
simulate_pulse_fallback_once(ext) ==
  [ext |-> Iteration(ext, 0).ext, status |-> "returned"]

\* simulate_pulse() as a whole
simulate_pulse_fallback(ext) == RunLoop(ext, 0, {})

\* the loop of equals() from the cells l and r on
RECURSIVE EqualsLoop(_, _, _, _, _)
EqualsLoop(lhs, rhs, l, r, seen) ==
  IF l = nullptr \/ r = nullptr THEN l = r
  ELSE IF <<l, r>> \in seen THEN FALSE
  ELSE IF lhs.len[l] # rhs.len[r] THEN FALSE
  ELSE IF l # r THEN FALSE
  ELSE EqualsLoop(lhs, rhs, lhs.next[l], rhs.next[r], seen \cup {<<l, r>>})

\* equals() comparing the first segment only
equals_fallback_first(lhs, rhs) == lhs.len[0] = rhs.len[0]

\* equals()
equals_fallback(lhs, rhs) == EqualsLoop(lhs, rhs, 0, 0, {})

\* the array of an Extender whose segments pointer is nullptr
NoStorage == [i \in {} |-> 0]

\* destroy(): delete[] extender.segments; extender.segments = nullptr
destroy_fallback(ext) == [len |-> NoStorage, next |-> NoStorage]

(***************************************************************************)
(* Vectorized engine: snaperz_extender_avx2.h                              *)
(***************************************************************************)
\* to_even rounding down instead of up
to_even_floor(value) == value - (value % 2)

to_even(value) == value + (value % 2)

\* sizeof(__m256i) / sizeof(len_t)
kElemCount == RegisterBytes \div SizeofLen(kLength + 1)

\* kSegCount without the rounding to an even count
kSegCountExact == kLength + 1

kSegCount ==
  IF kLength + 1 > 2 * kElemCount THEN kLength + 1 ELSE to_even(kLength + 1)

kSaturationCount == Min(kSegCount, 2 * kElemCount)

\* lanes of a register, lane 0 being the least significant element
Lanes == 0..(kElemCount - 1)

\* number of values of one lane (len_t arithmetic wraps around)
LaneMod == 2^(8 * SizeofLen(kLength + 1))

ZeroLanes == [i \in Lanes |-> 0]

NoLanes == [i \in Lanes |-> FALSE]

\* _right_shift: V'[i] = V[i + 1], V'[n - 1] = 0
right_shift(v) == [i \in Lanes |-> IF i + 1 \in Lanes THEN v[i + 1] ELSE 0]

\* create() filling the trailing segments like the others
create_avx2_ones(length) ==
  [segments |-> [i \in 0..(kSegCount - 1) |-> 1],
   windows |-> [w \in 0..1 |-> ZeroLanes],
   last_seg_masks |-> [w \in 0..1 |-> NoLanes],
   counter |-> ZeroLanes,
   parity_bit |-> 0,
   p |-> 0,
   steps |-> 0]

\* create(): the dense array holds 1 at 0..kLength and 0 in the padding
create_avx2(length) ==
  [segments |-> [i \in 0..(kSegCount - 1) |-> IF i <= length THEN 1 ELSE 0],
   windows |-> [w \in 0..1 |-> ZeroLanes],
   last_seg_masks |-> [w \in 0..1 |-> NoLanes],
   counter |-> ZeroLanes,
   parity_bit |-> 0,
   p |-> 0,
   steps |-> 0]

\* a flush that writes at the cursor itself
FlushIndexAtCursor(p) == p % kSegCount

\* a flush that writes kSaturationCount entries ahead of the cursor
FlushIndexAhead(p) == (p + kSaturationCount) % kSegCount

\* index written by the flush: (p + (kSegCount - kSaturationCount)) % kSegCount
FlushIndex(p) == (p + (kSegCount - kSaturationCount)) % kSegCount

\* a terminal flag that compares the counter with kLength
LastSegMaskShort(counter) == [i \in Lanes |-> counter[i] = kLength % LaneMod]

\* _mm256_cmpeq(_counter, _len_plus_one)
LastSegMask(counter) == [i \in Lanes |-> counter[i] = (kLength + 1) % LaneMod]

\* push delta of one lane without the mask for C = 1 and C = 0
PushDeltaUnmasked(c, last) ==
  Min(IF last THEN kLastPushLimit ELSE kPushLimit, (c - 1) % LaneMod)

\* push delta of one lane without the limit of the last segment
PushDeltaInterior(c, last) ==
  IF c = 1 \/ c = 0 THEN 0
  ELSE Min(kPushLimit, (c - 1) % LaneMod)

\* push delta of one lane: min(limit, C - 1), masked where C is 1 or 0
PushDelta(c, last) ==
  IF c = 1 \/ c = 0 THEN 0
  ELSE Min(IF last THEN kLastPushLimit ELSE kPushLimit, (c - 1) % LaneMod)

\* a pull delta that does not look at the terminal flag
PullDeltaAlways(c, n, last) == IF c = 1 THEN n ELSE 0

\* pull delta of one lane: the next value, masked where the lane is the last
\* segment or where C is not 1
PullDelta(c, n, last) == IF c = 1 /\ ~last THEN n ELSE 0

\* a counter that is never reset
KeepCounter(counter, last) == counter

\* _mm256_andnot(_last_seg_mask, _counter): zero the counter where the
\* terminal flag is set
ResetCounter(counter, last) ==
  [i \in Lanes |-> IF last[i] THEN 0 ELSE counter[i]]

\* _simulate_step<len_t>
simulate_step(e) ==
  LET ci == e.parity_bit
      ni == 1 - e.parity_bit
      flushed == IF e.steps >= kSaturationCount
                 THEN [e.segments EXCEPT ![FlushIndex(e.p)] = e.windows[ni][0]]
                 ELSE e.segments
      next_length == flushed[e.p]
      next0 == [right_shift(e.windows[ni])
                  EXCEPT ![kSaturationCount \div 2 - 1] = next_length]
      curr0 == e.windows[ci]
      counter1 == [i \in Lanes |-> (e.counter[i] + curr0[i]) % LaneMod]
      mask1 == LastSegMask(counter1)
      delta == [i \in Lanes |->
                 (PullDelta(curr0[i], next0[i], mask1[i])
                    - PushDelta(curr0[i], mask1[i])) % LaneMod]
      curr1 == [i \in Lanes |-> (curr0[i] + delta[i]) % LaneMod]
      next1 == [i \in Lanes |-> (next0[i] - delta[i]) % LaneMod]
      counter2 == [i \in Lanes |-> (counter1[i] + delta[i]) % LaneMod]
      mask2 == LastSegMask(counter2)
      counter3 == ResetCounter(counter2, mask2)
  IN [segments |-> flushed,
      windows |-> [w \in 0..1 |-> IF w = ci THEN curr1 ELSE next1],
      last_seg_masks |-> [e.last_seg_masks EXCEPT ![ni] = mask2],
      counter |-> counter3,
      parity_bit |-> ni,
      p |-> (e.p + 1) % kSegCount,
      steps |-> e.steps + 1]

\* while (extender.p >= kSaturationCount) _simulate_step(extender);
RECURSIVE AlignWindow(_)
AlignWindow(e) ==
  IF e.p >= kSaturationCount
  THEN CHOOSE out \in {AlignWindow(s) : s \in {simulate_step(e)}} : TRUE
  ELSE e

\* simulate_pulse(): align, then two steps
simulate_pulse_avx2(e) ==
  CHOOSE out \in {simulate_step(second) :
                    second \in {simulate_step(first) :
                                  first \in {AlignWindow(e)}}} : TRUE

\* assert(0 <= extender.p && extender.p <= kSaturationCount)
CursorAssertion(e) == 0 <= e.p /\ e.p <= kSaturationCount

\* lane of the first segment: (p > 0) * (kSaturationCount - p) / 2
first_seg_index(e) ==
  ((IF e.p > 0 THEN 1 ELSE 0) * (kSaturationCount - e.p)) \div 2

\* _finished that reads the mask of the other register
finished_avx2_other(e) ==
  LET parity == (e.parity_bit + (e.p % 2) + 1) % 2
  IN e.last_seg_masks[parity][first_seg_index(e)]

\* _finished<len_t>
finished_avx2(e) ==
  LET parity == (e.parity_bit + (e.p % 2)) % 2
  IN e.last_seg_masks[parity][first_seg_index(e)]

\* _equals<len_t> comparing the cursors only
equals_avx2_cursor(lhs, rhs) == lhs.p = rhs.p

\* _equals<len_t> comparing the segments from the start of the array
equals_avx2_from_start(lhs, rhs) ==
  /\ lhs.p = rhs.p
  /\ \A i \in 0..1 : lhs.windows[i] = rhs.windows[i]
  /\ \A j \in 0..(kSegCount - kSaturationCount - 1) :
       lhs.segments[j] = rhs.segments[j]

\* _equals<len_t>
equals_avx2(lhs, rhs) ==
  /\ lhs.p = rhs.p
  /\ \A i \in 0..1 : lhs.windows[i] = rhs.windows[i]
  /\ \A j \in 0..(kSegCount - kSaturationCount - 1) :
       lhs.segments[lhs.p + j] = rhs.segments[rhs.p + j]

\* destroy(): delete[] extender.segments; extender.segments = nullptr
destroy_avx2(e) == [e EXCEPT !.segments = NoStorage]

(***************************************************************************)
(* The scalar simulate_pulse, one loop iteration per step.                 *)
(***************************************************************************)
Periods == 0..MaxPeriod

Lengths == 1..MaxLength

NoVisit(ext, what) ==
  [kind |-> what, k |-> 0, amount |-> 0, to |-> nullptr, pre |-> ext]

Faults == {"fault_oob", "fault_null"}

\* the record kept of one loop iteration: r is the result of Iteration,
\* pre the state it started from
VisitOf(r, pre) ==
  [kind |-> IF ~r.brk /\ r.to = nullptr THEN "fault_null" ELSE r.kind,
   k |-> r.k, amount |-> r.amount, to |-> r.to, pre |-> pre]

\* auto curr = extender.segments;
BeginPulse ==
  /\ curr = nullptr
  /\ visit.kind \notin Faults
  /\ curr' = 0
  /\ visit' = NoVisit(fallback, "call")
  /\ UNCHANGED <<params, twin, fallback, vectorVars, driverVars>>

\* one loop iteration with curr->len > 1
IteratePush ==
  /\ curr \in Cells
  /\ fallback.len[curr] > 1
  /\ LET r == Iteration(fallback, curr)
     IN /\ fallback' = r.ext
        /\ curr' = r.to
        /\ visit' = VisitOf(r, fallback)
  /\ UNCHANGED <<params, twin, vectorVars, driverVars>>

\* one loop iteration with curr->len <= 1
IteratePull ==
  /\ curr \in Cells
  /\ fallback.len[curr] <= 1
  /\ LET r == Iteration(fallback, curr)
     IN /\ fallback' = r.ext
        /\ curr' = r.to
        /\ visit' = VisitOf(r, fallback)
  /\ UNCHANGED <<params, twin, vectorVars, driverVars>>

InitFallback ==
  /\ kLength \in Lengths
  /\ kPeriod \in Periods
  /\ fallback = create_fallback(kLength)
  /\ curr = nullptr
  /\ visit = NoVisit(fallback, "create")
  /\ avx2 = Unused
  /\ phase = "idle"
  /\ engine = "fallback"
  /\ extender = Unused
  /\ slow_extender = Unused
  /\ pulses = 0
  /\ pc = "none"
  /\ extra = 0
  /\ twin = Unused

NextFallback == BeginPulse \/ IteratePush \/ IteratePull

SpecFallback == InitFallback /\ [][NextFallback]_vars

(***************************************************************************)
(* The vectorized simulate_pulse, one _simulate_step per step.             *)
(***************************************************************************)
\* an iteration of the aligning while loop of simulate_pulse
AlignStep ==
  /\ phase \in {"idle", "align"}
  /\ phase = "idle" => avx2.steps < MaxSteps
  /\ avx2.p >= kSaturationCount
  /\ avx2' = simulate_step(avx2)
  /\ phase' = "align"
  /\ UNCHANGED <<params, twin, scalarVars, driverVars>>

\* the first of the two steps of the pulse
FirstStep ==
  /\ phase \in {"idle", "align"}
  /\ phase = "idle" => avx2.steps < MaxSteps
  /\ avx2.p < kSaturationCount
  /\ avx2' = simulate_step(avx2)
  /\ phase' = "second"
  /\ UNCHANGED <<params, twin, scalarVars, driverVars>>

\* the second of the two steps of the pulse; simulate_pulse returns
SecondStep ==
  /\ phase = "second"
  /\ avx2' = simulate_step(avx2)
  /\ phase' = "idle"
  /\ UNCHANGED <<params, twin, scalarVars, driverVars>>

InitAvx2 ==
  /\ kLength \in Lengths
  /\ kPeriod \in Periods
  /\ avx2 = create_avx2(kLength)
  /\ phase = "idle"
  /\ fallback = Unused
  /\ curr = nullptr
  /\ visit = Unused
  /\ engine = "avx2"
  /\ extender = Unused
  /\ slow_extender = Unused
  /\ pulses = 0
  /\ pc = "none"
  /\ extra = 0
  /\ twin = Unused

NextAvx2 == AlignStep \/ FirstStep \/ SecondStep

SpecAvx2 == InitAvx2 /\ [][NextAvx2]_vars

(***************************************************************************)
(* Both engines side by side: the same number of simulate_pulse calls on a *)
(* scalar and on a vectorized instance.                                    *)
(***************************************************************************)
InitLockstep ==
  /\ kLength \in Lengths
  /\ kPeriod \in Periods
  /\ fallback = create_fallback(kLength)
  /\ curr = nullptr
  /\ visit = Unused
  /\ avx2 = create_avx2(kLength)
  /\ phase = "idle"
  /\ engine = "both"
  /\ extender = Unused
  /\ slow_extender = Unused
  /\ pulses = 0
  /\ pc = "lockstep"
  /\ extra = 0
  /\ twin = Unused

\* simulate_pulse on both instances; when the scalar call does not return
\* the scalar instance has no state after the call
LockstepPulse ==
  /\ pc = "lockstep"
  /\ pulses < MaxPulses
  /\ \E r \in {simulate_pulse_fallback(fallback)} :
       IF r.status = "returned"
       THEN /\ fallback' = r.ext
            /\ pc' = pc
       ELSE /\ pc' = r.status
            /\ UNCHANGED fallback
  /\ avx2' = simulate_pulse_avx2(avx2)
  /\ pulses' = pulses + 1
  /\ UNCHANGED <<params, twin, curr, visit, phase, engine, extender, slow_extender,
                 extra>>

\* simulate_pulse on the vectorized instance alone, past the pulse count at
\* which the scalar call did not return
VectorPulse ==
  /\ pc = "hang"
  /\ pulses < MaxPulses
  /\ avx2' = simulate_pulse_avx2(avx2)
  /\ pulses' = pulses + 1
  /\ UNCHANGED <<params, twin, scalarVars, phase, engine, extender, slow_extender,
                 pc, extra>>

NextLockstep == LockstepPulse \/ VectorPulse

SpecLockstep == InitLockstep /\ [][NextLockstep]_vars

(***************************************************************************)
(* The driver simulate_extender (CHECK_LOOP 1, FAST_LOOP_DETECTION 1).     *)
(***************************************************************************)
Engines == {"fallback", "avx2"}

Create(eng) ==
  IF eng = "fallback" THEN create_fallback(kLength) ELSE create_avx2(kLength)

Finished(eng, e) ==
  IF eng = "fallback" THEN finished_fallback(e) ELSE finished_avx2(e)

\* an equals that always returns false
EqualsNever(eng, lhs, rhs) == FALSE

Equals(eng, lhs, rhs) ==
  IF eng = "fallback" THEN equals_fallback(lhs, rhs) ELSE equals_avx2(lhs, rhs)

\* simulate_pulse of the selected engine: the new state and whether the
\* call returned
SimulatePulse(eng, e) ==
  IF eng = "fallback" THEN simulate_pulse_fallback(e)
  ELSE [ext |-> simulate_pulse_avx2(e), status |-> "returned"]

Destroy(eng, e) ==
  IF eng = "fallback" THEN destroy_fallback(e) ELSE destroy_avx2(e)

InitDriver ==
  /\ kLength \in Lengths
  /\ kPeriod \in Periods
  /\ engine \in Engines
  /\ extender = Create(engine)
  /\ slow_extender = Create(engine)
  /\ pulses = 0
  /\ pc = "while"
  /\ extra = 0
  /\ twin = Unused
  /\ fallback = Unused
  /\ curr = nullptr
  /\ visit = Unused
  /\ avx2 = Unused
  /\ phase = "idle"

\* a loop that enters its body without testing finished()
LoopTestAlways ==
  /\ pc = "while"
  /\ pc' = "body"
  /\ UNCHANGED <<params, twin, scalarVars, vectorVars, engine, extender,
                 slow_extender, pulses, extra>>

\* while (!snaperz::finished(extender))
LoopTest ==
  /\ pc = "while"
  /\ pc' = IF Finished(engine, extender) THEN "done" ELSE "body"
  /\ UNCHANGED <<params, twin, scalarVars, vectorVars, engine, extender,
                 slow_extender, pulses, extra>>

\* SlowTurn taking the odd counts
SlowTurnOdd(n) == n % 2 = 1

\* is the slow instance pulsed after the pulse that made the count n?
SlowTurn(n) == n % 2 = 0

\* slow loop detection: skip every other check
LoopCheckSlow(eng, n, fast, slow) == n % 2 = 0 /\ Equals(eng, fast, slow)

\* the loop check of FAST_LOOP_DETECTION, after the pulse that made the
\* count n
LoopCheck(eng, n, fast, slow) == Equals(eng, fast, slow)

\* the loop body: pulse the fast instance, count, pulse the slow instance
\* every other time, compare
LoopBody ==
  /\ pc = "body"
  /\ pulses < MaxPulses
  /\ \E fast \in {SimulatePulse(engine, extender)} :
     \E slow \in {IF fast.status = "returned" /\ SlowTurn(pulses + 1)
                  THEN SimulatePulse(engine, slow_extender)
                  ELSE [ext |-> slow_extender, status |-> "returned"]} :
       IF fast.status # "returned"
       THEN /\ pc' = fast.status
            /\ UNCHANGED <<extender, slow_extender, pulses>>
       ELSE IF slow.status # "returned"
       THEN /\ pc' = slow.status
            /\ extender' = fast.ext
            /\ pulses' = pulses + 1
            /\ UNCHANGED slow_extender
       ELSE /\ extender' = fast.ext
            /\ slow_extender' = slow.ext
            /\ pulses' = pulses + 1
            /\ pc' = IF LoopCheck(engine, pulses + 1, fast.ext, slow.ext)
                     THEN "loop" ELSE "while"
  /\ UNCHANGED <<params, twin, scalarVars, vectorVars, engine, extra>>

\* after the loop: "Done!", destroy(extender), destroy(slow_extender)
Cleanup ==
  /\ pc = "done"
  /\ extender' = Destroy(engine, extender)
  /\ slow_extender' = Destroy(engine, slow_extender)
  /\ pc' = "exit"
  /\ UNCHANGED <<params, twin, scalarVars, vectorVars, engine, pulses, extra>>

NextDriver == LoopTest \/ LoopBody \/ Cleanup

SpecDriver == InitDriver /\ [][NextDriver]_vars

\* the driver is one sequential thread: it takes its next step whenever it
\* has one
FairSpecDriver == SpecDriver /\ WF_vars(NextDriver)

\* Pulses on the fast instance after the driver has reported a loop (the
\* instances are not destroyed on that path).
PulseAfterLoop ==
  /\ pc = "loop"
  /\ extra < MaxPulses
  /\ \E r \in {SimulatePulse(engine, extender)} :
       /\ r.status = "returned"
       /\ extender' = r.ext
  /\ extra' = extra + 1
  /\ UNCHANGED <<params, twin, scalarVars, vectorVars, engine, slow_extender,
                 pulses, pc>>

NextAfterLoop == NextDriver \/ PulseAfterLoop

SpecAfterLoop == InitDriver /\ [][NextAfterLoop]_vars

(***************************************************************************)
(* The same parameters built twice: the driver of the build with the       *)
(* scalar engine in the driver variables, the driver of the build with the *)
(* vectorized engine in twin.  The two programs do not interact, so the    *)
(* second is run once the first has nothing more to do.                    *)
(***************************************************************************)
\* one step of simulate_extender on the run d: the loop test, the loop body
\* or the cleanup
simulate_extender(d) ==
  IF d.pc = "while"
  THEN [d EXCEPT !.pc = IF Finished(d.engine, d.extender)
                        THEN "done" ELSE "body"]
  ELSE IF d.pc = "done"
  THEN [d EXCEPT !.extender = Destroy(d.engine, d.extender),
                 !.slow_extender = Destroy(d.engine, d.slow_extender),
                 !.pc = "exit"]
  ELSE CHOOSE out \in
    {IF fast.status # "returned"
     THEN [d EXCEPT !.pc = fast.status]
     ELSE CHOOSE o \in
       {IF slow.status # "returned"
        THEN [d EXCEPT !.extender = fast.ext, !.pulses = d.pulses + 1,
                       !.pc = slow.status]
        ELSE [d EXCEPT !.extender = fast.ext, !.slow_extender = slow.ext,
                       !.pulses = d.pulses + 1,
                       !.pc = IF LoopCheck(d.engine, d.pulses + 1,
                                           fast.ext, slow.ext)
                              THEN "loop" ELSE "while"]
        : slow \in {IF SlowTurn(d.pulses + 1)
                    THEN SimulatePulse(d.engine, d.slow_extender)
                    ELSE [ext |-> d.slow_extender, status |-> "returned"]}}
       : TRUE
     : fast \in {SimulatePulse(d.engine, d.extender)}} : TRUE

\* the positions at which a driver has nothing more to do: it has returned
\* or it is inside a call that never returns
Ended == {"exit", "loop", "hang", "fault"}

InitTwin ==
  /\ kLength \in Lengths
  /\ kPeriod \in Periods
  /\ engine = "fallback"
  /\ extender = Create("fallback")
  /\ slow_extender = Create("fallback")
  /\ pulses = 0
  /\ pc = "while"
  /\ extra = 0
  /\ twin = [engine |-> "avx2", extender |-> Create("avx2"),
             slow_extender |-> Create("avx2"), pulses |-> 0, pc |-> "while"]
  /\ fallback = Unused
  /\ curr = nullptr
  /\ visit = Unused
  /\ avx2 = Unused
  /\ phase = "idle"

TwinStep ==
  /\ pc \in Ended
  /\ twin.pc \notin Ended
  /\ twin.pulses < MaxPulses
  /\ twin' = simulate_extender(twin)
  /\ UNCHANGED <<params, scalarVars, vectorVars, driverVars>>

NextTwin == NextDriver \/ TwinStep

SpecTwin == InitTwin /\ [][NextTwin]_vars

(***************************************************************************)
(* Two instances of one engine, each advanced on its own: extender by      *)
(* pulses calls of simulate_pulse and slow_extender by extra calls.        *)
(***************************************************************************)
InitPair ==
  /\ kLength \in Lengths
  /\ kPeriod \in Periods
  /\ engine \in Engines
  /\ extender = Create(engine)
  /\ slow_extender = Create(engine)
  /\ pulses = 0
  /\ pc = "pair"
  /\ extra = 0
  /\ twin = Unused
  /\ fallback = Unused
  /\ curr = nullptr
  /\ visit = Unused
  /\ avx2 = Unused
  /\ phase = "idle"

PulseFirst ==
  /\ pc = "pair"
  /\ pulses < MaxCalls
  /\ \E r \in {SimulatePulse(engine, extender)} :
       /\ r.status = "returned"
       /\ extender' = r.ext
  /\ pulses' = pulses + 1
  /\ UNCHANGED <<params, twin, scalarVars, vectorVars, engine, slow_extender,
                 pc, extra>>

PulseSecond ==
  /\ pc = "pair"
  /\ extra < MaxCalls
  /\ \E r \in {SimulatePulse(engine, slow_extender)} :
       /\ r.status = "returned"
       /\ slow_extender' = r.ext
  /\ extra' = extra + 1
  /\ UNCHANGED <<params, twin, scalarVars, vectorVars, engine, extender,
                 pc, pulses>>

NextPair == PulseFirst \/ PulseSecond

SpecPair == InitPair /\ [][NextPair]_vars

(***************************************************************************)
(* The pacing of the driver without its exits, on the vectorized engine:   *)
(* extender after pulses calls of simulate_pulse, slow_extender after      *)
(* pulses / 2 calls; once equals holds, both are advanced together, extra  *)
(* counting the calls made on each.                                        *)
(***************************************************************************)
InitFuture ==
  /\ kLength \in Lengths
  /\ kPeriod \in Periods
  /\ engine = "avx2"
  /\ extender = create_avx2(kLength)
  /\ slow_extender = create_avx2(kLength)
  /\ pulses = 0
  /\ pc = "pace"
  /\ extra = 0
  /\ twin = Unused
  /\ fallback = Unused
  /\ curr = nullptr
  /\ visit = Unused
  /\ avx2 = Unused
  /\ phase = "idle"

\* simulate_pulse(extender); pulses++; every other time
\* simulate_pulse(slow_extender)
PacePulse ==
  /\ pc = "pace"
  /\ pulses < MaxPulses
  /\ extender' = simulate_pulse_avx2(extender)
  /\ slow_extender' = IF SlowTurn(pulses + 1)
                      THEN simulate_pulse_avx2(slow_extender)
                      ELSE slow_extender
  /\ pulses' = pulses + 1
  /\ UNCHANGED <<params, twin, scalarVars, vectorVars, engine, pc, extra>>

\* simulate_pulse on both instances of a pair that equals has accepted
FuturePulse ==
  /\ pc \in {"pace", "future"}
  /\ pc = "pace" => equals_avx2(extender, slow_extender)
  /\ extra < MaxCalls
  /\ extender' = simulate_pulse_avx2(extender)
  /\ slow_extender' = simulate_pulse_avx2(slow_extender)
  /\ extra' = extra + 1
  /\ pc' = "future"
  /\ UNCHANGED <<params, twin, scalarVars, vectorVars, engine, pulses>>

NextFuture == PacePulse \/ FuturePulse

SpecFuture == InitFuture /\ [][NextFuture]_vars

(***************************************************************************)
(* Claims about the scalar engine.                                         *)
(***************************************************************************)
RECURSIVE SumUpTo(_, _)
SumUpTo(f, n) == IF n < 0 THEN 0 ELSE f[n] + SumUpTo(f, n - 1)

\* a loop iteration has just run (visit describes it)
Visited == visit.kind \notin {"create", "call"}

\* C1: in every state of the scalar engine reachable from create() by
\* simulate_pulse calls (states inside a pulse included), the lengths of the
\* kLength + 1 cells sum to kLength + 1.
C1_ScalarConservation == SumUpTo(fallback.len, kLength) = kLength + 1

C1_Witness ==
  /\ curr = nullptr
  /\ visit.kind = "merge"
  /\ finished_fallback(visit.pre) = FALSE
  /\ \E i \in Cells : fallback.len[i] > 2

\* C6: a loop iteration at cell k with length > 1 moves min(limit, len - 1)
\* elements from k to k + 1, limit being kLastPushLimit when k has no
\* successor and kPushLimit otherwise; an empty k + 1 is spliced in after k;
\* k keeps at least one element and no other cell changes.
C6_PushRule ==
  (Visited /\ visit.pre.len[visit.k] > 1) =>
    LET k == visit.k
        pre == visit.pre
        limit == IF pre.next[k] = nullptr THEN kLastPushLimit ELSE kPushLimit
        m == IF limit < pre.len[k] - 1 THEN limit ELSE pre.len[k] - 1
    IN /\ k < kLength
       /\ fallback.len[k] = pre.len[k] - m
       /\ fallback.len[k + 1] = pre.len[k + 1] + m
       /\ fallback.len[k] >= 1
       /\ \A i \in Cells \ {k, k + 1} :
            /\ fallback.len[i] = pre.len[i]
            /\ fallback.next[i] = pre.next[i]
       /\ IF pre.len[k + 1] = 0
          THEN /\ fallback.next[k] = k + 1
               /\ fallback.next[k + 1] = pre.next[k]
          ELSE /\ fallback.next[k] = pre.next[k]
               /\ fallback.next[k + 1] = pre.next[k + 1]

C6_Witness ==
  /\ Visited
  /\ visit.pre.len[visit.k] > 2
  /\ visit.pre.next[visit.k] # nullptr
  /\ visit.pre.len[visit.k + 1] = 0
  /\ visit.amount >= 1
  /\ fallback.next[visit.k] = visit.k + 1

\* C7: a loop iteration at cell k with length 1: (a) without successor the
\* pulse ends and nothing changes; (b) with a nonzero k + 1, k gains the whole
\* length of k + 1, k + 1 becomes 0 and k's successor becomes the old
\* successor of k + 1, the pulse ending iff k has no successor now; (c) with
\* an empty k + 1 nothing changes and the pulse continues at k's successor.
\* In no case does the pulse stay at k.
C7_PullRule ==
  (Visited /\ visit.pre.len[visit.k] = 1) =>
    LET k == visit.k
        pre == visit.pre
    IN IF pre.next[k] = nullptr
       THEN fallback = pre /\ curr = nullptr
       ELSE /\ k < kLength
            /\ curr # k
            /\ IF pre.len[k + 1] # 0
               THEN /\ fallback.len[k] = 1 + pre.len[k + 1]
                    /\ fallback.len[k + 1] = 0
                    /\ fallback.next[k] = pre.next[k + 1]
                    /\ fallback.next[k + 1] = pre.next[k + 1]
                    /\ \A i \in Cells \ {k, k + 1} :
                         /\ fallback.len[i] = pre.len[i]
                         /\ fallback.next[i] = pre.next[i]
                    /\ curr = fallback.next[k]
               ELSE /\ fallback = pre
                    /\ curr = pre.next[k]
                    /\ curr # nullptr

C7_Witness ==
  /\ Visited
  /\ visit.pre.len[visit.k] = 1
  /\ visit.pre.next[visit.k] # nullptr
  /\ visit.pre.len[visit.k + 1] > 1
  /\ fallback.len[visit.k] = 1 + visit.pre.len[visit.k + 1]
  /\ curr \in Cells

\* the terminal configuration: everything in segment 0
Terminal(len) ==
  /\ len[0] = kLength + 1
  /\ \A i \in Cells \ {0} : len[i] = 0

\* C8: between pulses, finished() of the scalar engine is true iff segment 0
\* has length kLength + 1 and every other segment has length 0.
C8_ScalarFinished ==
  (curr = nullptr) => (finished_fallback(fallback) <=> Terminal(fallback.len))

C8_Witness ==
  /\ curr = nullptr
  /\ Visited
  /\ kLength >= 2
  /\ finished_fallback(fallback)
  /\ Terminal(fallback.len)

\* C10: simulate_pulse never follows a null successor and never touches the
\* cell after the array: the push and the merge only run at an index below
\* kLength.
C10_ScalarMemorySafe ==
  /\ visit.kind \notin Faults
  /\ curr \in Cells \cup {nullptr}
  /\ (Visited /\ visit.kind \in {"push", "merge", "skip"}) => visit.k < kLength

C10_Witness ==
  /\ Visited
  /\ visit.k = kLength
  /\ visit.kind = "last"
  /\ kLength >= 2


(***************************************************************************)
(* Claims about the vectorized engine.                                     *)
(***************************************************************************)
\* number of positions whose live value is in the window registers
ResidentCount(e) == Min(e.steps, kSaturationCount)

\* the position loaded j steps ago
LoadedAt(e, j) == (e.p + kSegCount - j) % kSegCount

ResidentPositions(e) == {LoadedAt(e, j) : j \in 1..ResidentCount(e)}

\* the lane value of the position loaded j steps ago: the register that took
\* the last insert holds the odd j, the other one the even j
WindowValue(e, j) ==
  IF j % 2 = 1
  THEN e.windows[e.parity_bit][kSaturationCount \div 2 - 1 - (j - 1) \div 2]
  ELSE e.windows[1 - e.parity_bit][kSaturationCount \div 2 - j \div 2]

\* the live value of position q
LogicalValue(e, q) ==
  IF q \in ResidentPositions(e)
  THEN WindowValue(e, CHOOSE j \in 1..ResidentCount(e) : LoadedAt(e, j) = q)
  ELSE e.segments[q]

RECURSIVE SumOver(_, _)
SumOver(f, S) ==
  IF S = {} THEN 0
  ELSE LET x == CHOOSE y \in S : TRUE IN f[x] + SumOver(f, S \ {x})

WindowSum(e) == SumOver(e.windows[0], Lanes) + SumOver(e.windows[1], Lanes)

DenseSum(e) ==
  SumOver(e.segments, (0..(kSegCount - 1)) \ ResidentPositions(e))

\* C3: after any number of _simulate_step executions the lanes of the two
\* window registers plus the dense array entries of the positions that are
\* not resident in the window sum to kLength + 1.
C3_VectorConservation == WindowSum(avx2) + DenseSum(avx2) = kLength + 1

C3_Witness ==
  /\ avx2.steps > kSegCount + kSaturationCount
  /\ kSegCount > kSaturationCount
  /\ WindowSum(avx2) > 0
  /\ DenseSum(avx2) > 0
  /\ \E i \in Lanes : avx2.windows[0][i] > 2

\* C9: after any number of simulate_pulse calls finished() of the vectorized
\* engine is true iff the live value of position 0 is kLength + 1.
C9_VectorFinished ==
  (phase = "idle") =>
    (finished_avx2(avx2) <=> (LogicalValue(avx2, 0) = kLength + 1))

C9_Witness ==
  /\ phase = "idle"
  /\ kSegCount > kSaturationCount
  /\ avx2.steps > 0
  /\ finished_avx2(avx2)
  /\ 0 \in ResidentPositions(avx2)
  /\ LogicalValue(avx2, 0) = kLength + 1


(***************************************************************************)
(* Claims about both engines and about the driver.                         *)
(***************************************************************************)
\* C2: after the same number of simulate_pulse calls from create(), the
\* scalar and the vectorized engine give the same finished(); at the pulse
\* counts the scalar engine does not reach because a call never returns,
\* the vectorized engine does not report finished either.
C2_FinishedAgrees ==
  /\ (pc = "lockstep") =>
       (finished_fallback(fallback) <=> finished_avx2(avx2))
  /\ (pc = "hang") => ~finished_avx2(avx2)

C2_Witness ==
  /\ pc = "lockstep"
  /\ pulses >= 9
  /\ kSegCount > kSaturationCount
  /\ finished_fallback(fallback)
  /\ finished_avx2(avx2)

\* C4: once the driver has reported a loop, the fast instance is not
\* finished, and no further pulse makes it finished (either engine).
C4_LoopIsSound == (pc = "loop") => ~Finished(engine, extender)

C4_WitnessScalar ==
  /\ pc = "loop"
  /\ engine = "fallback"
  /\ extra >= 4

C4_Witness ==
  /\ pc = "loop"
  /\ engine = "avx2"
  /\ kSegCount > kSaturationCount
  /\ extra >= 2 * pulses

\* the driver has stopped: it reported a completion count or a loop count
Stopped == pc \in {"done", "exit", "loop"}

\* C5: the driver loop eventually stops, whatever kLength and kPeriod are.
C5_DriverStops == <>Stopped

\* the pulse counter cap of the model is never what stops the driver
CapNotReached == pulses < MaxPulses

\* both drivers have reported completion with the same pulse count, or both
\* have reported a loop
SameOutcome ==
  \/ pc = "exit" /\ twin.pc = "exit" /\ pulses = twin.pulses
  \/ pc = "loop" /\ twin.pc = "loop"

\* C11: for the same parameters the driver of the scalar build and the
\* driver of the vectorized build end with the same kind of outcome: both
\* report completion with the same pulse count, or both report a loop.
C11_SameOutcome == (pc \in Ended /\ twin.pc \in Ended) => SameOutcome

\* the outcomes agree wherever the scalar driver returns
SameOutcomeWhenReturned ==
  (pc \in {"exit", "loop"} /\ twin.pc \in Ended) => SameOutcome

\* the instance of engine eng after n simulate_pulse calls from create()
RECURSIVE PulsedFromCreate(_, _)
PulsedFromCreate(eng, n) ==
  IF n = 0 THEN Create(eng)
  ELSE CHOOSE out \in {SimulatePulse(eng, e).ext :
                         e \in {PulsedFromCreate(eng, n - 1)}} : TRUE

\* C12: at the end of every iteration of the driver loop, with pulse count
\* n, the fast instance is create() advanced n times and the slow instance
\* is create() advanced n \div 2 times.
C12_TwoSpeedPacing ==
  (pc \in {"while", "loop"}) =>
    /\ extender = PulsedFromCreate(engine, pulses)
    /\ slow_extender = PulsedFromCreate(engine, pulses \div 2)

C12_Witness ==
  /\ pc = "while"
  /\ pulses = 7
  /\ slow_extender = PulsedFromCreate(engine, 3)
  /\ slow_extender # PulsedFromCreate(engine, 4)
  /\ extender # PulsedFromCreate(engine, 6)

\* C13 as stated: the driver compares only after pulses whose count is even,
\* so a loop is never reported at an odd pulse count.
C13_LoopOnlyAtEvenCount == (pc = "loop") => pulses % 2 = 0

\* C13, amended: the driver compares after every pulse, odd or even: it
\* reports a loop as soon as equals(extender, slow_extender) holds after a
\* pulse, and goes back to the loop test only when it does not hold.
C13_ComparesAfterEveryPulse ==
  /\ (pc = "loop") => Equals(engine, extender, slow_extender)
  /\ (pc = "while" /\ pulses > 0) =>
       ~Equals(engine, extender, slow_extender)

C13_Witness ==
  /\ pc = "loop"
  /\ pulses % 2 = 1
  /\ Equals(engine, extender, slow_extender)

\* a simulate_pulse call on instances that are finished leaves them finished
FinishedStays ==
  (pc = "lockstep" /\ pulses' = pulses + 1) =>
    /\ finished_fallback(fallback) =>
         /\ finished_fallback(fallback')
         /\ fallback'.len[0] = kLength + 1
    /\ finished_avx2(avx2) =>
         /\ finished_avx2(avx2')
         /\ LogicalValue(avx2', 0) = kLength + 1

\* C14: once finished() is true, a further simulate_pulse call leaves
\* segment 0 at kLength + 1 and finished() true, in either engine.
C14_StableTermination == [][FinishedStays]_vars

\* the state create() of the scalar engine is said to return
FullyExtendedScalar(e) ==
  /\ DOMAIN e.len = 0..kLength
  /\ DOMAIN e.next = 0..kLength
  /\ \A i \in 0..kLength : e.len[i] = 1
  /\ \A i \in 0..(kLength - 1) : e.next[i] = i + 1
  /\ e.next[kLength] = nullptr

\* the state create() of the vectorized engine is said to return
FullyExtendedVector(e) ==
  /\ DOMAIN e.segments = 0..(kSegCount - 1)
  /\ \A i \in 0..kLength : e.segments[i] = 1
  /\ \A i \in (kLength + 1)..(kSegCount - 1) : e.segments[i] = 0
  /\ \A w \in 0..1 : \A j \in Lanes :
       e.windows[w][j] = 0 /\ ~e.last_seg_masks[w][j]
  /\ \A j \in Lanes : e.counter[j] = 0
  /\ e.parity_bit = 0
  /\ e.p = 0
  /\ e.steps = 0

\* C15: the instances the driver gets from create(), before the first
\* pulse, are in the fully extended initial state of their engine.
C15_InitialState ==
  (pulses = 0 /\ pc \in {"while", "body"}) =>
    IF engine = "fallback"
    THEN FullyExtendedScalar(extender) /\ FullyExtendedScalar(slow_extender)
    ELSE FullyExtendedVector(extender) /\ FullyExtendedVector(slow_extender)

C15_Witness ==
  /\ pulses = 0
  /\ pc = "body"
  /\ engine = "avx2"
  /\ kSegCount > kLength + 1
  /\ FullyExtendedVector(extender)

\* the chain of e from cell c on: the linked indices with their lengths, in
\* chain order (at most fuel cells)
RECURSIVE ChainFrom(_, _, _)
ChainFrom(e, c, fuel) ==
  IF c = nullptr \/ fuel = 0 THEN <<>>
  ELSE <<(<<c, e.len[c]>>)>> \o ChainFrom(e, e.next[c], fuel - 1)

Chain(e) == ChainFrom(e, 0, kLength + 2)

\* equals() is true iff the two chains are the same
EqualsIffSameChain ==
  (pc = "pair" /\ engine = "fallback") =>
    (equals_fallback(extender, slow_extender)
       <=> Chain(extender) = Chain(slow_extender))

\* equals() is true iff the two length arrays are the same
EqualsIffSameLengths ==
  (pc = "pair" /\ engine = "fallback") =>
    (equals_fallback(extender, slow_extender)
       <=> \A i \in 0..kLength : extender.len[i] = slow_extender.len[i])

\* C16: on two reachable states of the scalar engine equals() is true iff
\* the chains link the same indices with the same lengths and end at the
\* same point; equivalently, iff the length arrays are identical.
C16_ScalarEquals == EqualsIffSameChain /\ EqualsIffSameLengths

\* the second characterisation wherever the push limit is not 0
EqualsIffSameLengthsPushing == (kPushLimit > 0) => EqualsIffSameLengths

\* the dense-array positions whose value is not held in a window of e
NotResident(e) == (0..(kSegCount - 1)) \ ResidentPositions(e)

\* same cursor, same windows, and the same dense entry at every position
\* that is not resident in the windows
SameOutsideWindow(a, b) ==
  /\ a.p = b.p
  /\ \A w \in 0..1 : \A j \in Lanes : a.windows[w][j] = b.windows[w][j]
  /\ \A q \in NotResident(a) \cup NotResident(b) :
       a.segments[q] = b.segments[q]

\* C17: on two states of the vectorized engine reached by simulate_pulse
\* calls, equals() is true iff the cursors match, the windows are lane-wise
\* identical and the dense entries of the positions not resident in the
\* windows are identical.
C17_VectorEquals ==
  (pc = "pair" /\ engine = "avx2") =>
    (equals_avx2(extender, slow_extender)
       <=> SameOutsideWindow(extender, slow_extender))

C17_Witness ==
  /\ pc = "pair"
  /\ engine = "avx2"
  /\ kSegCount > kSaturationCount
  /\ pulses # extra
  /\ equals_avx2(extender, slow_extender)

\* cursors and windows agree and equals() is false
C17_WitnessOutside ==
  /\ pc = "pair"
  /\ engine = "avx2"
  /\ extender.p = slow_extender.p
  /\ extender.windows = slow_extender.windows
  /\ ~equals_avx2(extender, slow_extender)

ScenarioAfterFirstPulse ==
  /\ pc = "pair"
  /\ engine = "fallback"
  /\ kLength = 3
  /\ kPushLimit = 1
  /\ kLastPushLimit = 2
  /\ pulses = 1

\* the lengths of the linked segments, in chain order
ChainLengths(e) == [i \in DOMAIN Chain(e) |-> Chain(e)[i][2]]

\* C19 as stated: after the first pulse the lengths are [1,1,0,2] and the
\* chain is [1,1,2].
C19_ScenarioAsStated ==
  ScenarioAfterFirstPulse =>
    /\ extender.len = [i \in 0..3 |-> <<1, 1, 0, 2>>[i + 1]]
    /\ ChainLengths(extender) = <<1, 1, 2>>

\* C19, amended: after the first pulse the lengths are [2,0,2,0] and the
\* chain is [2,2], linking the cells 0 and 2 (both pairs of neighbours of
\* length 1 merge).
C19_Scenario ==
  ScenarioAfterFirstPulse =>
    /\ extender.len = [i \in 0..3 |-> <<2, 0, 2, 0>>[i + 1]]
    /\ Chain(extender) = <<(<<0, 2>>), (<<2, 2>>)>>
    /\ ChainLengths(extender) = <<2, 2>>

C19_Witness ==
  /\ ScenarioAfterFirstPulse
  /\ extra = 0
  /\ slow_extender.len = [i \in 0..3 |-> 1]
  /\ extender.len[0] = 2

\* destroy() has released the storage of the instance e
Destroyed(eng, e) ==
  IF eng = "fallback" THEN e.len = NoStorage ELSE e.segments = NoStorage

\* the driver has returned: after the cleanup, or by the return statement
\* of the loop report
Returned == pc \in {"exit", "loop"}

\* C20: when the driver has returned, by completion or by a detected loop,
\* destroy has been called on the fast and on the slow instance.
C20_Lifecycle ==
  Returned =>
    /\ Destroyed(engine, extender)
    /\ Destroyed(engine, slow_extender)

\* the lifecycle on the completion path, and no destroy before the return
DestroyedOnCompletion ==
  /\ (pc = "exit") =>
       Destroyed(engine, extender) /\ Destroyed(engine, slow_extender)
  /\ (pc \in {"while", "body", "done"}) =>
       ~Destroyed(engine, extender) /\ ~Destroyed(engine, slow_extender)

\* C21: in the push case (cell k with length > 1) the number of elements
\* moved from k into k + 1 is min(push_limit, len(k)), as the documented
\* pseudo code has it.
C21_DocumentedPushAmount ==
  (Visited /\ visit.pre.len[visit.k] > 1) =>
    LET k == visit.k
        pre == visit.pre
        push_limit == IF pre.next[k] = nullptr
                      THEN kLastPushLimit ELSE kPushLimit
    IN /\ visit.amount = Min(push_limit, pre.len[k])
       /\ fallback.len[k] = pre.len[k] - Min(push_limit, pre.len[k])

\* the indices linked from cell 0 of e, in chain order
ChainIndices(e) == [i \in DOMAIN Chain(e) |-> Chain(e)[i][1]]

\* the chain of e holds exactly the cells of nonzero length, in strictly
\* increasing index order
ChainMatchesLengths(e) ==
  LET idx == ChainIndices(e)
  IN /\ \A i \in DOMAIN idx : \A j \in DOMAIN idx : i < j => idx[i] < idx[j]
     /\ {idx[i] : i \in DOMAIN idx} = {c \in Cells : e.len[c] # 0}

\* C22: in every state of the scalar engine reachable from create(), the
\* chain from segment 0 holds exactly the cells of nonzero length, in
\* increasing index order, and no cell of length 0 pushes or pulls.
C22_ChainArrayAgreement ==
  /\ ChainMatchesLengths(fallback)
  /\ Visited => visit.pre.len[visit.k] # 0

\* the agreement wherever the push limit is not 0
ChainArrayAgreementPushing == (kPushLimit > 0) => C22_ChainArrayAgreement

\* C23: within one simulate_pulse call the index of the visited cell
\* strictly increases from one loop iteration to the next, so the loop
\* visits each cell at most once and the call returns after at most
\* kLength + 1 iterations.
C23_PulseTerminates ==
  (Visited /\ curr # nullptr) => (curr \in Cells /\ curr > visit.k)

\* the same wherever the push limit is not 0
PulseTerminatesPushing == (kPushLimit > 0) => C23_PulseTerminates

\* C24: in every state of the scalar engine, states inside a pulse
\* included, the lengths at the indices 0..k-1 sum to at least k for every
\* k in 1..kLength; so the lengths at k..kLength sum to at most
\* kLength + 1 - k, cell kLength holds at most 1 and segment 0 at least 1.
C24_PrefixSum ==
  /\ \A k \in 1..kLength :
       /\ SumUpTo(fallback.len, k - 1) >= k
       /\ SumUpTo(fallback.len, kLength) - SumUpTo(fallback.len, k - 1)
            <= kLength + 1 - k
  /\ fallback.len[kLength] <= 1
  /\ fallback.len[0] >= 1

C24_Witness ==
  /\ Visited
  /\ visit.kind = "push"
  /\ curr # nullptr
  /\ \E k \in 1..kLength : SumUpTo(fallback.len, k - 1) = k
  /\ \E k \in 1..kLength : SumUpTo(fallback.len, k - 1) > k + 1

\* C25: after create() and after every completed simulate_pulse call the
\* cursor p is even and 0 <= p <= kSaturationCount, so the assertions of
\* _finished and _equals hold and the kSegCount - kSaturationCount entries
\* _equals reads from index p on lie inside the dense array.
C25_CursorAssertion ==
  (phase = "idle") =>
    /\ avx2.p % 2 = 0
    /\ CursorAssertion(avx2)
    /\ avx2.p + (kSegCount - kSaturationCount) <= kSegCount
    /\ \A j \in 0..(kSegCount - kSaturationCount - 1) :
         avx2.p + j \in DOMAIN avx2.segments

C25_Witness ==
  /\ phase = "idle"
  /\ avx2.steps > 2 * kSegCount
  /\ kSegCount > kSaturationCount
  /\ kSegCount % 2 = 1
  /\ avx2.p = kSaturationCount

\* the position whose lane leaves the window in the next step, if any: the
\* one loaded kSaturationCount steps ago
Outgoing(e) ==
  IF e.steps >= kSaturationCount THEN {LoadedAt(e, kSaturationCount)} ELSE {}

\* one _simulate_step seen from the dense array: the value of the outgoing
\* position is written back to where it was loaded from and nothing else is
\* written; the position loaded is not held in a lane that stays; the
\* window then holds the min(steps, kSaturationCount) last loaded positions
ResidencyStep ==
  (avx2'.steps = avx2.steps + 1) =>
    /\ \A q \in 0..(kSegCount - 1) :
         avx2'.segments[q] =
           IF q \in Outgoing(avx2)
           THEN WindowValue(avx2, kSaturationCount)
           ELSE avx2.segments[q]
    /\ avx2.p \notin ResidentPositions(avx2) \ Outgoing(avx2)
    /\ ResidentPositions(avx2') =
         (ResidentPositions(avx2) \ Outgoing(avx2)) \cup {avx2.p}
    /\ Cardinality(ResidentPositions(avx2')) =
         Min(avx2'.steps, kSaturationCount)
    /\ avx2'.p = (avx2.p + 1) % kSegCount

\* C26: after t steps the min(t, kSaturationCount) positions last loaded
\* live in the window lanes and every other position in the dense array;
\* a flush writes lane 0 of the outgoing register to the position it was
\* loaded from kSaturationCount steps earlier, and no position is loaded
\* again before its value has been written back.
C26_WindowResidency == [][ResidencyStep]_vars

C26_Witness ==
  /\ avx2.steps > kSegCount + kSaturationCount
  /\ kSegCount > kSaturationCount
  /\ \E q \in ResidentPositions(avx2) :
       avx2.segments[q] # LogicalValue(avx2, q)
  /\ \E q \in 0..(kSegCount - 1) :
       q \notin ResidentPositions(avx2) /\ avx2.segments[q] > 1

\* the lanes of a register that hold positions
UsedLanes == 0..(kSaturationCount \div 2 - 1)

\* how many steps ago the position in lane i of the current register was
\* loaded, and that position
CurrentAge(i) == kSaturationCount - 1 - 2 * i

CurrentPosition(e, i) == LoadedAt(e, CurrentAge(i))

\* the terminal flags _simulate_step computes before the delta
FlagBeforeDelta(e) ==
  LastSegMask([i \in Lanes |->
                 (e.counter[i] + e.windows[e.parity_bit][i]) % LaneMod])

\* C27: in every step, for every lane whose current value is nonzero, the
\* terminal flag computed before the delta is set iff every position after
\* the lane's current position, up to kLength, holds 0.
C27_TerminalFlag ==
  \A i \in UsedLanes :
    (avx2.windows[avx2.parity_bit][i] # 0) =>
      (FlagBeforeDelta(avx2)[i]
         <=> \A q \in (CurrentPosition(avx2, i) + 1)..kLength :
               LogicalValue(avx2, q) = 0)

C27_Witness ==
  /\ avx2.steps > kSegCount
  /\ kSegCount > kSaturationCount
  /\ \E i \in UsedLanes :
       /\ avx2.windows[avx2.parity_bit][i] > 1
       /\ FlagBeforeDelta(avx2)[i]
       /\ CurrentPosition(avx2, i) \in 1..(kLength - 1)
  /\ \E i \in UsedLanes :
       /\ avx2.windows[avx2.parity_bit][i] # 0
       /\ ~FlagBeforeDelta(avx2)[i]

\* the lane i of the current register holds a position that was loaded
Loaded(e, i) == e.steps >= CurrentAge(i)

\* C28: a lane that begins a new pass (its current value is that of
\* position 0) has counter 0 before the value is added; a lane whose
\* terminal flag was set after the delta has counter 0; and a lane whose
\* counter is 0 later in a pass finds only 0 at the remaining positions,
\* so that the counter stays 0 for the rest of the pass.
C28_CounterReset ==
  \A i \in UsedLanes :
    /\ (Loaded(avx2, i) /\ CurrentPosition(avx2, i) = 0) =>
         avx2.counter[i] = 0
    /\ avx2.last_seg_masks[avx2.parity_bit][i] => avx2.counter[i] = 0
    /\ (Loaded(avx2, i) /\ CurrentPosition(avx2, i) >= 1
          /\ avx2.counter[i] = 0) =>
         \A q \in CurrentPosition(avx2, i)..kLength :
           LogicalValue(avx2, q) = 0

C28_Witness ==
  /\ avx2.steps > 2 * kSegCount
  /\ kSegCount > kSaturationCount
  /\ \E i \in UsedLanes :
       /\ CurrentPosition(avx2, i) = 0
       /\ avx2.counter[i] = 0
       /\ avx2.windows[avx2.parity_bit][i] \in 2..kLength
  /\ \E i \in UsedLanes :
       /\ CurrentPosition(avx2, i) \in 1..kLength
       /\ avx2.counter[i] = 0
       /\ avx2.last_seg_masks[avx2.parity_bit][i]

\* the value following lane i of the current register: the lane of the
\* other register it is paired with in the next step, the top lane being
\* the value loaded at the cursor
NextValue(e, i) ==
  IF i = kSaturationCount \div 2 - 1 THEN LogicalValue(e, e.p)
  ELSE e.windows[1 - e.parity_bit][i + 1]

\* the scalar rule on a segment of length c followed by x, f telling
\* whether the segment is the last one
ScalarRule(c, x, f) ==
  IF c > 1
  THEN LET d == Min(IF f THEN kLastPushLimit ELSE kPushLimit, c - 1)
       IN <<c - d, x + d>>
  ELSE IF c = 1 /\ ~f THEN <<1 + x, 0>>
  ELSE <<c, x>>

\* one _simulate_step, lane by lane
LaneStep ==
  (avx2'.steps = avx2.steps + 1) =>
    \A i \in UsedLanes :
      <<avx2'.windows[avx2.parity_bit][i],
        avx2'.windows[1 - avx2.parity_bit][i]>>
        = ScalarRule(avx2.windows[avx2.parity_bit][i], NextValue(avx2, i),
                     FlagBeforeDelta(avx2)[i])

\* C29: in one vectorized step every lane with current value c, next value
\* x and terminal flag f becomes (c - d, x + d) with
\* d = min(f ? lastPushLimit : pushLimit, c - 1) if c > 1, (1 + x, 0) if
\* c = 1 and not f, and stays (c, x) otherwise.
C29_LaneRule == [][LaneStep]_vars

C29_Witness ==
  /\ avx2.steps > kSegCount
  /\ kPushLimit >= 1
  /\ \E i \in UsedLanes :
       /\ avx2.windows[avx2.parity_bit][i] > 2
       /\ ~FlagBeforeDelta(avx2)[i]
  /\ \E i \in UsedLanes :
       /\ avx2.windows[avx2.parity_bit][i] = 1
       /\ ~FlagBeforeDelta(avx2)[i]
       /\ NextValue(avx2, i) >= 1

\* C30: after every step every lane of both window registers and of the
\* counter register holds a value in 0..kLength + 1, and the counter plus
\* the current value it is about to take does not exceed kLength + 1: the
\* wrap-around of the lane arithmetic never changes a stored value.
C30_NoWraparound ==
  /\ kLength + 1 <= LaneMod - 1
  /\ \A i \in Lanes :
       /\ avx2.windows[0][i] \in 0..(kLength + 1)
       /\ avx2.windows[1][i] \in 0..(kLength + 1)
       /\ avx2.counter[i] \in 0..(kLength + 1)
       /\ avx2.counter[i] + avx2.windows[avx2.parity_bit][i] <= kLength + 1

C30_Witness ==
  /\ avx2.steps > 2 * kSegCount
  /\ \E i \in Lanes :
       avx2.counter[i] + avx2.windows[avx2.parity_bit][i] = kLength + 1
  /\ \E w \in 0..1 : \E i \in Lanes : avx2.windows[w][i] = kLength + 1

(***************************************************************************)
(* Claims about the bookkeeping of the vectorized engine.                  *)
(***************************************************************************)
\* C31: the steps field of a vectorized instance equals the number of
\* simulate_pulse calls made on it since create().
C31_StepsCountPulses ==
  (engine = "both") => avx2.steps = pulses

\* what the field does count: the _simulate_step calls, at least two for
\* every simulate_pulse call and exactly two while no aligning step ran
StepsCountSteps ==
  (engine = "both") =>
    /\ avx2.steps >= 2 * pulses
    /\ (2 * pulses <= kSaturationCount) => avx2.steps = 2 * pulses

\* C32 as stated: the dense array size kSegCount is at least kLength + 1 and
\* even, so the parity bit is back at its starting value whenever the cursor
\* is back at 0.
C32_DenseArrayEven ==
  (engine = "avx2" /\ pc = "none") =>
    /\ kSegCount >= kLength + 1
    /\ kSegCount % 2 = 0
    /\ (avx2.p = 0) => (avx2.parity_bit = 0)

\* C32 amended: kSegCount is at least kLength + 1; it is even when the chain
\* fits the two windows (kLength + 1 <= 2 * kElemCount) and exactly
\* kLength + 1, odd or even, otherwise; the cursor and the parity bit follow
\* the step count, so a full lap of the cursor changes the parity bit
\* exactly when kSegCount is odd.
C32_DenseArraySize ==
  (engine = "avx2" /\ pc = "none") =>
    /\ kSegCount >= kLength + 1
    /\ (kLength + 1 <= 2 * kElemCount) => (kSegCount % 2 = 0)
    /\ (kLength + 1 > 2 * kElemCount) => (kSegCount = kLength + 1)
    /\ avx2.p = avx2.steps % kSegCount
    /\ avx2.parity_bit = avx2.steps % 2
    /\ (avx2.p = 0) => (avx2.parity_bit = (avx2.steps \div kSegCount) * kSegCount % 2)

\* the cursor is back at 0 after a full lap of an even dense array and the
\* parity bit is the one of create()
C32_Witness ==
  /\ engine = "avx2" /\ pc = "none"
  /\ kSegCount % 2 = 0
  /\ avx2.steps >= kSegCount
  /\ avx2.p = 0
  /\ avx2.parity_bit = 0

\* the cursor is back at 0 after one lap of an odd dense array and the
\* parity bit is flipped
OddLap ==
  /\ engine = "avx2" /\ pc = "none"
  /\ kSegCount % 2 = 1
  /\ avx2.steps = kSegCount
  /\ avx2.p = 0
  /\ avx2.parity_bit = 1

(***************************************************************************)
(* Claims about constants.h.                                               *)
(***************************************************************************)
\* C33: for every period, kVirtualPushLimit is the mathematical value
\* floor(kPeriod / 4) - 2 and kPushLimit is min(12, floor(kPeriod / 4) - 2):
\* the unsigned subtraction does not wrap, a period below 8 gives no larger
\* push limit than period 8, and kPushLimit <= kLastPushLimit <= 12.
C33_PushLimitDerivation ==
  /\ kVirtualPushLimitOf(kPeriod) = [hi |-> 0, lo |-> (kPeriod \div 4) - 2]
  /\ kPushLimit = Min(kHardPushLimit, (kPeriod \div 4) - 2)
  /\ (kPeriod < 8) => (kPushLimit <= kPushLimitOf(8))
  /\ kPushLimit <= kLastPushLimit
  /\ kLastPushLimit <= kHardPushLimit

\* the part of the derivation that holds: it is exact from period 8 on, and
\* the limits are ordered and bounded for every period
PushLimitDerivationFromEight ==
  /\ (kPeriod >= 8) =>
       /\ kVirtualPushLimitOf(kPeriod) = [hi |-> 0, lo |-> (kPeriod \div 4) - 2]
       /\ kPushLimit = Min(kHardPushLimit, (kPeriod \div 4) - 2)
  /\ (kPeriod < 8) => (kPushLimit = kHardPushLimit)
  /\ kPushLimit <= kLastPushLimit
  /\ kLastPushLimit <= kHardPushLimit

(***************************************************************************)
(* Claims about the loop check of the vectorized engine.                   *)
(***************************************************************************)
\* the pair was accepted by equals, now or before the calls made since
Accepted ==
  \/ pc = "future"
  \/ pc = "pace" /\ equals_avx2(extender, slow_extender)

\* C34: when equals holds between the fast instance after n pulses and the
\* slow instance after n / 2 pulses, the two answer finished() alike after
\* any number of further simulate_pulse calls made on both.
C34_EqualsSufficient ==
  Accepted => (finished_avx2(extender) <=> finished_avx2(slow_extender))

\* of the fields equals does not read, the parity bit and the counter agree
\* on an accepted pair; the cached masks and the step count need not
SameHiddenFields ==
  Accepted =>
    /\ extender.parity_bit = slow_extender.parity_bit
    /\ extender.counter = slow_extender.counter

\* a pair accepted at a pulse count above 0 and advanced by further calls
C34_Witness ==
  /\ pc = "future"
  /\ pulses > 0
  /\ extra >= 2
  /\ extender.steps # slow_extender.steps

\* an accepted pair that is not finished after further calls, and one that is
AcceptedUnfinished ==
  /\ pc = "future"
  /\ pulses > 0
  /\ extra >= 2
  /\ ~finished_avx2(extender)
  /\ ~finished_avx2(slow_extender)

\* equals accepts a pair whose cached masks differ
AcceptedDifferentMasks ==
  /\ pc = "pace"
  /\ pulses > 0
  /\ equals_avx2(extender, slow_extender)
  /\ extender.last_seg_masks # slow_extender.last_seg_masks

AcceptedFinished ==
  /\ pc = "future"
  /\ pulses > 0
  /\ extra >= 2
  /\ finished_avx2(extender)
  /\ finished_avx2(slow_extender)

(***************************************************************************)
(* Claims about what the driver reports.                                   *)
(***************************************************************************)
\* C35: when the driver is about to call simulate_pulse, the fast instance
\* is not finished, and the slow instance is not finished when this is its
\* turn to be pulsed as well.
C35_NeverAdvancesFinished ==
  (pc = "body") =>
    /\ ~Finished(engine, extender)
    /\ SlowTurn(pulses + 1) => ~Finished(engine, slow_extender)

\* the driver is about to pulse both instances, the slow one not for the
\* first time
C35_Witness ==
  /\ pc = "body"
  /\ pulses >= 3
  /\ SlowTurn(pulses + 1)
  /\ engine = "avx2"

\* the same with the scalar engine
AboutToPulseBothScalar ==
  /\ pc = "body"
  /\ pulses >= 3
  /\ SlowTurn(pulses + 1)
  /\ engine = "fallback"

\* the count reported with "Done!" is the smallest number of simulate_pulse
\* calls from create() after which finished() holds
ExactCompletionCount ==
  (pc \in {"done", "exit"}) =>
    /\ \E e \in {PulsedFromCreate(engine, pulses)} : Finished(engine, e)
    /\ \A k \in 0..(pulses - 1) :
         \E e \in {PulsedFromCreate(engine, k)} : ~Finished(engine, e)

\* a loop is not reported at a pulse count at which the fast instance is
\* finished
NoLoopWhenFinished ==
  (pc = "loop") => ~Finished(engine, extender)

\* the driver has printed "Done!" with its count, or "Loop at" with its count
ReportedDone == pc = "exit"

ReportedLoop == pc = "loop"

\* C36: a run of the driver reports exactly one of the two outcomes; a
\* reported completion count is the smallest number of pulses from create()
\* after which finished() holds, and a loop is never reported at a count at
\* which the fast instance is finished.
C36_ExactReport ==
  /\ [](ExactCompletionCount /\ NoLoopWhenFinished)
  /\ []~(ReportedDone /\ ReportedLoop)
  /\ <>(ReportedDone \/ ReportedLoop)

\* the part that holds for every run: what is reported is exact, and a run
\* never reports both outcomes
ExactWhenReported ==
  /\ ExactCompletionCount
  /\ NoLoopWhenFinished
  /\ ~(ReportedDone /\ ReportedLoop)

\* a run with the vectorized engine that reports completion after several
\* pulses, and one that reports a loop
ReportsDoneVector == ReportedDone /\ engine = "avx2" /\ pulses >= 5

ReportsLoopVector == ReportedLoop /\ engine = "avx2" /\ pulses >= 5


====
